---------------------------- MODULE Spec2Model ----------------------------
(***************************************************************************)
(* A model of tbcompare (src/src/file_utils.rs, comparison.rs, main.rs).   *)
(*                                                                         *)
(* Text is modelled as sequences of code points (a line is a sequence of   *)
(* naturals), a file as the sequence of lines that BufRead::lines() yields *)
(* from the decoded stream, a directory as its listing (a sequence of      *)
(* entries).  Everything the operating system answers (the size of a       *)
(* file, an I/O failure, the behaviour of the diff / fc.exe / sort         *)
(* utilities, the collation locale of sort, the iteration order of a       *)
(* HashSet) is an input chosen by the action that makes the call.          *)
(***************************************************************************)
EXTENDS Naturals, Sequences, FiniteSets, TLC

\* ------------------------------------------------------------------ bounds
\* The longest file, in lines (header included).
MaxLines == 3

\* The longest directory listing.
MaxDirFiles == 2

\* The largest worker pool.
MaxThreads == 2

\* The number of lines above which read_and_process_file sorts with the
\* external utility: 100_000 in the source, scaled to the model's files.
LINE_SORT_THRESHOLD == 1

VARIABLES
    platform,      \* "unix" | "windows": the value of cfg!(windows)
    fs,            \* path -> the lines of the file; a path outside its domain does not exist
    tmp_files,     \* the number of temporary files that exist
    loaded,        \* the outcomes of the calls of read_and_process_file made directly
    task,          \* the calls of compare_files: a sequence of call records
    dir1, dir2,    \* the listings of the two directories
    file_pairs,    \* the result of generate_file_pairs
    threads,       \* the size of the worker pool (args.threads)
    phase,         \* the position of main
    results,       \* main: the collected (file1, file2, result) triples
    diff_count,    \* main: pairs with differences
    error_count    \* main: pairs whose comparison failed

vars == <<platform, fs, tmp_files, loaded, task, dir1, dir2, file_pairs,
          threads, phase, results, diff_count, error_count>>

Platforms == {"unix", "windows"}

\* ------------------------------------------------------------------- text
\* Code points used by the model: 9 TAB, 10 LF, 13 CR, 32 SPACE, 66 'B',
\* 97 'a'.
WhiteSpace == {9, 10, 11, 12, 13, 32}

\* str::trim: the leading and trailing white space removed.
RECURSIVE TrimStart(_)
TrimStart(s) ==
    IF s # <<>> /\ s[1] \in WhiteSpace THEN TrimStart(Tail(s)) ELSE s

RECURSIVE TrimEnd(_)
TrimEnd(s) ==
    IF s # <<>> /\ s[Len(s)] \in WhiteSpace
    THEN TrimEnd(SubSeq(s, 1, Len(s) - 1))
    ELSE s

Trim(s) == TrimEnd(TrimStart(s))

\* The key a character is compared by.  "C": the code point (String's Ord
\* compares bytes).  "en_US": letters in alphabetical order, the lower case
\* letter before the upper case one, as a locale's collation does.
CharKey(c, locale) ==
    IF locale = "C" THEN 2 * c
    ELSE IF c \in 65..90 THEN 2 * (c + 32) + 1
    ELSE 2 * c

\* a < b, lexicographically by CharKey.
LineLess(a, b, locale) ==
    \E i \in 1..(Len(a) + 1) :
        /\ i <= Len(b)
        /\ \A j \in 1..(i - 1) : a[j] = b[j]
        /\ \/ i = Len(a) + 1
           \/ CharKey(a[i], locale) < CharKey(b[i], locale)

\* One line put at its place in a sorted sequence, after its equals.
RECURSIVE InsertSorted(_, _, _)
InsertSorted(x, s, locale) ==
    IF s = <<>> THEN <<x>>
    ELSE IF LineLess(x, s[1], locale) THEN <<x>> \o s
    ELSE <<s[1]>> \o InsertSorted(x, Tail(s), locale)

RECURSIVE SortLines(_, _)
SortLines(s, locale) ==
    IF s = <<>> THEN <<>>
    ELSE InsertSorted(s[Len(s)], SortLines(SubSeq(s, 1, Len(s) - 1), locale), locale)

\* lines.sort(): Vec<String> in String's order.
VecSort(lines) == SortLines(lines, "C")

\* writeln!(file, "{}", line) for each line: the bytes of the temporary file.
RECURSIVE WriteLines(_)
WriteLines(lines) ==
    IF lines = <<>> THEN <<>>
    ELSE lines[1] \o <<10>> \o WriteLines(Tail(lines))

FirstLF(s) ==
    IF \E i \in 1..Len(s) : s[i] = 10
    THEN CHOOSE i \in 1..Len(s) : s[i] = 10 /\ \A j \in 1..(i - 1) : s[j] # 10
    ELSE 0

\* A text cut at its line feeds; an unterminated last piece is a line too.
RECURSIVE SplitLF(_)
SplitLF(s) ==
    IF s = <<>> THEN <<>>
    ELSE LET i == FirstLF(s) IN
         IF i = 0 THEN <<s>>
         ELSE <<SubSeq(s, 1, i - 1)>> \o SplitLF(SubSeq(s, i + 1, Len(s)))

StripCR(l) ==
    IF l # <<>> /\ l[Len(l)] = 13 THEN SubSeq(l, 1, Len(l) - 1) ELSE l

\* Mutant: the first line of the text is taken for a header and left out.
StrLines_SkipFirst(s) ==
    [i \in 1..(IF Len(SplitLF(s)) = 0 THEN 0 ELSE Len(SplitLF(s)) - 1) |->
        StripCR(SplitLF(s)[i + 1])]

\* str::lines(): cut at "\n", a "\r" before it dropped.
StrLines(s) == [i \in 1..Len(SplitLF(s)) |-> StripCR(SplitLF(s)[i])]

\* The sort utility on a file: its lines in the collation order of the
\* locale it runs under, each written back with a line feed.
SortUtility(content, locale) == WriteLines(SortLines(SplitLF(content), locale))

\* The number of times x occurs in s.
Count(s, x) == Cardinality({i \in 1..Len(s) : s[i] = x})

Range(s) == {s[i] : i \in 1..Len(s)}

SamePermutation(s, t) ==
    /\ Len(s) = Len(t)
    /\ \A x \in Range(s) \cup Range(t) : Count(s, x) = Count(t, x)

IsSortedBytes(s) ==
    \A i \in 1..(Len(s) - 1) : ~LineLess(s[i + 1], s[i], "C")

\* ------------------------------------------------------- file_utils.rs
\* What the operating system answers during one call of
\* read_and_process_file:
\*   size    the answer of is_file_too_large: Ok(true), Ok(false) or Err
\*   fail    the one operation that fails, if any
\*   locale  the collation locale the sort utility runs under
SizeAnswers == {"large", "small", "unknown"}
FailPoints == {"none", "detect", "open", "read", "tmp", "write", "flush",
               "spawn", "exit", "utf8"}
Locales == {"C", "en_US"}

LoadEnvs ==
    {e \in [size : SizeAnswers, fail : FailPoints, locale : Locales] :
        e.fail # "none" => e.locale = "C"}

\* An anyhow error: its messages, the outermost context first.
Msg(text, arg) == [msg |-> text, arg |-> arg]

\* A context message without an argument.
Context(text) == [msg |-> text]

\* The diagnostic output of a failed sort utility.
SortStderr == "sort: stderr"

\* Mutant: the message leaves the diagnostic output out.
SortFailed_NoStderr(text) == [msg |-> text]

\* The message of a failed sort, which quotes its diagnostic output.
SortFailed(text) == [msg |-> text, stderr |-> SortStderr]

\* Mutant: the temporary files are kept (NamedTempFile::keep).
DroppedTemps_Kept(in_scope) == 0

\* NamedTempFile's Drop: the files of the temporaries in scope are removed.
DroppedTemps(in_scope) == in_scope

\* The outcome of a call: Ok(lines) or Err(err); the Vec the caller passed
\* (external_sort) as the call leaves it; which sort ran; the temporary
\* files created and those that still exist when the call returns.
Outcome(ok, lines, err, sorter, temps) ==
    [ok |-> ok, lines |-> lines, err |-> err, sorter |-> sorter,
     tmp_created |-> temps, tmp_left |-> temps - DroppedTemps(temps)]

\* Mutant: the loop never skips (first_line_skipped starts true).
SkipFirstAndTrim_KeepHeader(file) == [i \in 1..Len(file) |-> Trim(file[i])]

\* Mutant: the loop drops the last line instead of the first.
SkipFirstAndTrim_DropLast(file) ==
    [i \in 1..(IF Len(file) = 0 THEN 0 ELSE Len(file) - 1) |-> Trim(file[i])]

\* The loop of read_and_process_file and of external_sort_large_file: the
\* first line skipped, the others trimmed.
SkipFirstAndTrim(file) ==
    [i \in 1..(IF Len(file) = 0 THEN 0 ELSE Len(file) - 1) |-> Trim(file[i + 1])]

internal_sort(lines, temps) == Outcome(TRUE, VecSort(lines), <<>>, "internal", temps)

external_sort(lines, env) ==
    IF env.fail = "tmp"
    THEN Outcome(FALSE, lines,
                 <<Context("Failed to create temporary file for external sorting")>>,
                 "none", 0)
    ELSE IF env.fail = "write" /\ lines # <<>>
    THEN Outcome(FALSE, lines, <<Context("Failed to write to temporary file")>>,
                 "none", 1)
    ELSE IF env.fail = "flush"
    THEN Outcome(FALSE, lines, <<Context("Failed to flush temporary file")>>,
                 "none", 1)
    ELSE IF platform = "windows"
    THEN internal_sort(lines, 1)
    ELSE IF env.fail = "spawn"
    THEN Outcome(FALSE, lines, <<Context("Failed to execute Unix sort command")>>,
                 "external", 1)
    ELSE IF env.fail = "exit"
    THEN Outcome(FALSE, lines,
                 <<SortFailed("External sort command failed: {}")>>,
                 "external", 1)
    ELSE IF env.fail = "utf8"
    THEN Outcome(FALSE, lines,
                 <<Context("Failed to parse sorted output as UTF-8")>>,
                 "external", 1)
    ELSE Outcome(TRUE, StrLines(SortUtility(WriteLines(lines), env.locale)),
                 <<>>, "external", 1)

external_sort_large_file(file_path, env) ==
    IF env.fail = "detect"
    THEN Outcome(FALSE, <<>>,
                 <<Msg("Failed to detect encoding for large file: {}", file_path)>>,
                 "none", 0)
    ELSE IF env.fail = "tmp"
    THEN Outcome(FALSE, <<>>,
                 <<Context("Failed to create temporary file for decoded content")>>,
                 "none", 0)
    ELSE IF env.fail = "open"
    THEN Outcome(FALSE, <<>>, <<Msg("Failed to open large file: {}", file_path)>>,
                 "none", 1)
    ELSE IF env.fail = "read"
    THEN Outcome(FALSE, <<>>,
                 <<Msg("Failed to read line {} from large file: {}", file_path)>>,
                 "none", 1)
    ELSE LET lines == SkipFirstAndTrim(fs[file_path]) IN
         IF platform = "windows"
         THEN Outcome(TRUE, VecSort(lines), <<>>, "internal", 1)
         ELSE IF env.fail = "write" /\ lines # <<>>
         THEN Outcome(FALSE, <<>>,
                      <<Context("Failed to write to temporary decoded file")>>,
                      "none", 1)
         ELSE IF env.fail = "flush"
         THEN Outcome(FALSE, <<>>,
                      <<Context("Failed to flush temporary decoded file")>>,
                      "none", 1)
         ELSE IF env.fail = "spawn"
         THEN Outcome(FALSE, <<>>,
                      <<Context("Failed to execute Unix sort command on large file")>>,
                      "external", 1)
         ELSE IF env.fail = "exit"
         THEN Outcome(FALSE, <<>>,
                      <<SortFailed("External sort command failed for large file: {}")>>,
                      "external", 1)
         ELSE IF env.fail = "utf8"
         THEN Outcome(FALSE, <<>>,
                      <<Context("Failed to parse sorted output as UTF-8 for large file")>>,
                      "external", 1)
         ELSE Outcome(TRUE, StrLines(SortUtility(WriteLines(lines), env.locale)),
                      <<>>, "external", 1)

\* with_context on an Err: one more message in front.
WithContext(out, text, arg) ==
    IF out.ok THEN out ELSE [out EXCEPT !.err = <<Msg(text, arg)>> \o out.err]

read_and_process_file(file_path, env) ==
    IF env.size = "large"
    THEN external_sort_large_file(file_path, env)
    ELSE IF env.fail = "detect"
    THEN Outcome(FALSE, <<>>,
                 <<Msg("Failed to detect encoding for file: {}", file_path)>>,
                 "none", 0)
    ELSE IF env.fail = "open"
    THEN Outcome(FALSE, <<>>, <<Msg("Failed to open file: {}", file_path)>>,
                 "none", 0)
    ELSE IF env.fail = "read"
    THEN Outcome(FALSE, <<>>,
                 <<Msg("Failed to read line {} from file: {}", file_path)>>,
                 "none", 0)
    ELSE LET lines == SkipFirstAndTrim(fs[file_path]) IN
         IF Len(lines) > LINE_SORT_THRESHOLD
         THEN WithContext(external_sort(lines, env),
                          "Failed to externally sort file: {}", file_path)
         ELSE Outcome(TRUE, VecSort(lines), <<>>, "internal", 0)

\* --------------------------------------------------------- comparison.rs
\* Result<Option<FileDifferences>>.
NoResult == [tag |-> "Pending", only_in_first |-> <<>>, only_in_second |-> <<>>, err |-> <<>>]
OkNone == [tag |-> "OkNone", only_in_first |-> <<>>, only_in_second |-> <<>>, err |-> <<>>]
OkSome(first, second) ==
    [tag |-> "OkSome", only_in_first |-> first, only_in_second |-> second, err |-> <<>>]
Err(e) == [tag |-> "Err", only_in_first |-> <<>>, only_in_second |-> <<>>, err |-> e]

\* One call of compare_files: its arguments, its position, how the fast-path
\* utility behaved, the lines loaded, its result, the external operations it
\* has made (in order) and the temporary files it has created.
NewCall(file1_path, file2_path, pc) ==
    [file1 |-> file1_path, file2 |-> file2_path, pc |-> pc, fast |-> "none",
     lines1 |-> <<>>, lines2 |-> <<>>, result |-> NoResult, ops |-> <<>>,
     tmp_created |-> 0, tmp_left |-> 0]

Return(t, r) == [t EXCEPT !.pc = "done", !.result = r]

\* How the whole-file comparison utility behaves: it cannot be started, it
\* exits 0, it exits 1 with nothing on stderr, it exits with an error.
FastOutcomes == {"not_started", "identical", "different", "error"}

CompareUtility == IF platform = "windows" THEN "fc.exe" ELSE "diff"

ExecuteFailed ==
    IF platform = "windows" THEN "Failed to execute fc.exe command"
    ELSE "Failed to execute diff command"

\* Mutant: the second path is checked only after the utility has run.
compare_files_fast_LateCheck(t, fast) ==
    IF t.file1 \notin DOMAIN fs
    THEN Return(t, Err(<<Msg("File {} does not exist", t.file1)>>))
    ELSE LET u == [t EXCEPT !.fast = fast, !.ops = @ \o <<CompareUtility>>] IN
         IF t.file2 \notin DOMAIN fs
         THEN Return(u, Err(<<Msg("File {} does not exist", t.file2)>>))
         ELSE IF fast = "not_started"
         THEN Return(u, Err(<<Context(ExecuteFailed)>>))
         ELSE IF fast = "identical"
         THEN Return(u, OkNone)
         ELSE [u EXCEPT !.pc = "load1"]

\* compare_files from its entry to the end of the fast path.
compare_files_fast(t, fast) ==
    IF t.file1 \notin DOMAIN fs
    THEN Return(t, Err(<<Msg("File {} does not exist", t.file1)>>))
    ELSE IF t.file2 \notin DOMAIN fs
    THEN Return(t, Err(<<Msg("File {} does not exist", t.file2)>>))
    ELSE LET u == [t EXCEPT !.fast = fast, !.ops = @ \o <<CompareUtility>>] IN
         IF fast = "not_started"
         THEN Return(u, Err(<<Context(ExecuteFailed)>>))
         ELSE IF fast = "identical"
         THEN Return(u, OkNone)
         ELSE [u EXCEPT !.pc = "load1"]

\* compare_files: the first file loaded; out is what read_and_process_file
\* returned.
compare_files_load1(t, out) ==
    LET u == [t EXCEPT !.ops = @ \o <<"read_and_process_file">>,
                       !.tmp_created = @ + out.tmp_created,
                       !.tmp_left = @ + out.tmp_left]
    IN  IF ~out.ok
        THEN Return(u, Err(<<Msg("Failed to read and process file: {}", t.file1)>>
                           \o out.err))
        ELSE [u EXCEPT !.lines1 = out.lines, !.pc = "load2"]

\* Mutant: the receiver and the argument exchanged.
difference_Swapped(set1, set2) == set2 \ set1

\* HashSet::difference.
difference(set1, set2) == set1 \ set2

\* The Vecs an iterator over a HashSet can collect into: every element once,
\* in any order.
Collected(S) == {v \in [1..Cardinality(S) -> S] : Range(v) = S}

\* compare_files: the second file loaded, the sets built and compared.  The
\* call records that can result.
compare_files_load2(t, out) ==
    LET u == [t EXCEPT !.ops = @ \o <<"read_and_process_file">>,
                       !.tmp_created = @ + out.tmp_created,
                       !.tmp_left = @ + out.tmp_left]
    IN  IF ~out.ok
        THEN {Return(u, Err(<<Msg("Failed to read and process file: {}", t.file2)>>
                            \o out.err))}
        ELSE LET set1 == Range(t.lines1)
                 set2 == Range(out.lines)
                 v == [u EXCEPT !.lines2 = out.lines]
             IN  {Return(v, IF only_in_first = <<>> /\ only_in_second = <<>>
                            THEN OkNone
                            ELSE OkSome(only_in_first, only_in_second)) :
                     only_in_first \in Collected(difference(set1, set2)),
                     only_in_second \in Collected(difference(set2, set1))}

\* compare_files as one step: the call records a call can end in.
compare_files(t) ==
    LET started == {compare_files_fast(t, fast) :
                       fast \in {f \in FastOutcomes :
                                    f = "identical" =>
                                        /\ {t.file1, t.file2} \subseteq DOMAIN fs
                                        /\ fs[t.file1] = fs[t.file2]}}
        first == UNION {IF a.pc = "done" THEN {a}
                        ELSE {compare_files_load1(a, read_and_process_file(a.file1, env)) :
                                 env \in LoadEnvs} : a \in started}
    IN  UNION {IF b.pc = "done" THEN {b}
               ELSE UNION {compare_files_load2(b, read_and_process_file(b.file2, env)) :
                              env \in LoadEnvs} : b \in first}

\* A file name is a sequence of characters.  str::split(sep): the pieces
\* between the separators, at least one.
RECURSIVE Split(_, _)
Split(s, sep) ==
    IF \E i \in 1..Len(s) : s[i] = sep
    THEN LET i == CHOOSE k \in 1..Len(s) :
                      s[k] = sep /\ \A j \in 1..(k - 1) : s[j] # sep
         IN  <<SubSeq(s, 1, i - 1)>> \o Split(SubSeq(s, i + 1, Len(s)), sep)
    ELSE <<s>>

\* Path::file_stem: the name up to its last ".", the whole name when it has
\* none or only a leading one.
file_stem(name) ==
    LET dots == {i \in 1..Len(name) : name[i] = "."} IN
    IF dots = {} \/ \A i \in dots : i = 1 THEN name
    ELSE SubSeq(name, 1, (CHOOSE i \in dots : \A j \in dots : j <= i) - 1)

\* Path::join: the path of a name in a directory.
PathOf(dir_path, name) == [dir |-> dir_path, name |-> name]

\* The name follows the pattern SC_..._Z.
Conforming_NoPrefixCheck(parts) ==
    /\ Len(parts) >= 6
    /\ parts[Len(parts)] = <<"Z">>

Conforming(parts) ==
    /\ Len(parts) >= 6
    /\ parts[1] = <<"S", "C">>
    /\ parts[Len(parts)] = <<"Z">>

\* format!("{}_{}_{}", parts[1], parts[2], parts[parts.len()-2]).
KeyOf(parts) ==
    parts[2] \o <<"_">> \o parts[3] \o <<"_">> \o parts[Len(parts) - 1]

\* fs::read_dir(dir) ... collect(): the paths of the regular files, in the
\* order of the listing.
ReadDirFiles(dir_path, listing) ==
    LET files == SelectSeq(listing, LAMBDA e : e.is_file)
    IN  [i \in 1..Len(files) |-> PathOf(dir_path, files[i].name)]

\* HashMap::insert.
\* Mutant: a key already present keeps its value (entry().or_insert()).
MapInsert_KeepFirst(map, key, value) ==
    [k \in DOMAIN map \cup {key} |-> IF k \in DOMAIN map THEN map[k] ELSE value]

MapInsert(map, key, value) ==
    [k \in DOMAIN map \cup {key} |-> IF k = key THEN value ELSE map[k]]

EmptyMap == [k \in {} |-> <<>>]

\* The loop that fills dir2_map from files2.
RECURSIVE Dir2Map(_)
Dir2Map(files2) ==
    IF files2 = <<>> THEN EmptyMap
    ELSE LET map == Dir2Map(SubSeq(files2, 1, Len(files2) - 1))
             file2_path == files2[Len(files2)]
             parts2 == Split(file_stem(file2_path.name), "_")
         IN  IF Conforming(parts2)
             THEN MapInsert(map, KeyOf(parts2), file2_path)
             ELSE map

\* Mutant: the pairs are pushed at the front of file_pairs.
RECURSIVE PairsLoop_Reversed(_, _)
PairsLoop_Reversed(files1, dir2_map) ==
    IF files1 = <<>> THEN <<>>
    ELSE LET rest == PairsLoop_Reversed(Tail(files1), dir2_map)
             parts1 == Split(file_stem(files1[1].name), "_")
         IN  IF Conforming(parts1) /\ KeyOf(parts1) \in DOMAIN dir2_map
             THEN rest \o <<<<files1[1], dir2_map[KeyOf(parts1)]>>>>
             ELSE rest

\* The loop over files1 that fills file_pairs.
RECURSIVE PairsLoop(_, _)
PairsLoop(files1, dir2_map) ==
    IF files1 = <<>> THEN <<>>
    ELSE LET file_pairs_before == PairsLoop(SubSeq(files1, 1, Len(files1) - 1), dir2_map)
             file1_path == files1[Len(files1)]
             parts1 == Split(file_stem(file1_path.name), "_")
         IN  IF Conforming(parts1) /\ KeyOf(parts1) \in DOMAIN dir2_map
             THEN Append(file_pairs_before, <<file1_path, dir2_map[KeyOf(parts1)]>>)
             ELSE file_pairs_before

\* How read_dir answers: both directories are read, or one cannot be.
DirEnvs == {"ok", "dir1_unreadable", "dir2_unreadable"}

PairsResult(ok, pairs, err) == [ok |-> ok, pairs |-> pairs, err |-> err]

generate_file_pairs(dir1_path, dir2_path, env) ==
    IF env = "dir1_unreadable"
    THEN PairsResult(FALSE, <<>>, <<Msg("Failed to read directory: {}", dir1_path)>>)
    ELSE IF env = "dir2_unreadable"
    THEN PairsResult(FALSE, <<>>, <<Msg("Failed to read directory: {}", dir2_path)>>)
    ELSE LET files1 == ReadDirFiles(dir1_path, dir1)
             files2 == ReadDirFiles(dir2_path, dir2)
         IN  PairsResult(TRUE, PairsLoop(files1, Dir2Map(files2)), <<>>)

\* ---------------------------------------------------------------- main.rs
\* Mutant: the loop over the results ends at the first Err.
RECURSIVE ReportCounts_StopAtError(_)
ReportCounts_StopAtError(res) ==
    IF res = <<>> THEN [diff_count |-> 0, error_count |-> 0]
    ELSE IF res[1][3].tag = "Err" THEN [diff_count |-> 0, error_count |-> 1]
    ELSE LET c == ReportCounts_StopAtError(Tail(res)) IN
         IF res[1][3].tag = "OkSome" THEN [c EXCEPT !.diff_count = @ + 1] ELSE c

\* The loop of main over the results: diff_count and error_count.
RECURSIVE ReportCounts(_)
ReportCounts(res) ==
    IF res = <<>> THEN [diff_count |-> 0, error_count |-> 0]
    ELSE LET c == ReportCounts(SubSeq(res, 1, Len(res) - 1))
             result == res[Len(res)][3]
         IN  IF result.tag = "OkSome" THEN [c EXCEPT !.diff_count = @ + 1]
             ELSE IF result.tag = "Err" THEN [c EXCEPT !.error_count = @ + 1]
             ELSE c

\* file_pairs_count - diff_count - error_count, the summary's identical pairs.
IdenticalCount(file_pairs_count, diffs, errors) == file_pairs_count - diffs - errors

\* The closure of the parallel map: what it returns for a finished call.
ClosureResult(t) == <<t.file1, t.file2, t.result>>

\* ---------------------------------------------------------------- inputs
\* The lines the model's files are made of: "a", "B", " a", "" and "B\r".
RawLines == {<<97>>, <<66>>, <<32, 97>>, <<>>, <<66, 13>>}

FilesOver(lineset, n) == UNION {[1..k -> lineset] : k \in 0..n}

InputPath == "input"

Idle ==
    /\ loaded = <<>>
    /\ task = <<>>
    /\ dir1 = <<>>
    /\ dir2 = <<>>
    /\ file_pairs = PairsResult(TRUE, <<>>, <<>>)
    /\ threads = 1
    /\ phase = "none"
    /\ results = <<>>
    /\ diff_count = 0
    /\ error_count = 0

\* ------------------------------------------------ read_and_process_file
InitLoad ==
    /\ platform \in Platforms
    /\ fs \in [{InputPath} -> FilesOver(RawLines, MaxLines)]
    /\ tmp_files = 0
    /\ Idle

ReadAndProcessFile ==
    /\ loaded = <<>>
    /\ \E env \in LoadEnvs :
         LET out == read_and_process_file(InputPath, env) IN
         /\ loaded' = <<[out |-> out, env |-> env]>>
         /\ tmp_files' = tmp_files + out.tmp_left
    /\ UNCHANGED <<platform, fs, task, dir1, dir2, file_pairs, threads, phase,
                   results, diff_count, error_count>>

NextLoad == ReadAndProcessFile

SpecLoad == InitLoad /\ [][NextLoad]_vars


\* ---------------------------------------------------------- compare_files
\* The lines the files compared are made of: "a" and " B".
CmpLines == {<<97>>, <<32, 66>>}

FilePaths == {"file1", "file2"}

InitCompare ==
    /\ platform \in Platforms
    /\ fs \in UNION {[D -> FilesOver(CmpLines, MaxLines)] : D \in SUBSET FilePaths}
    /\ tmp_files = 0
    /\ loaded = <<>>
    /\ task = <<NewCall("file1", "file2", "start")>>
    /\ dir1 = <<>>
    /\ dir2 = <<>>
    /\ file_pairs = PairsResult(TRUE, <<>>, <<>>)
    /\ threads = 1
    /\ phase = "none"
    /\ results = <<>>
    /\ diff_count = 0
    /\ error_count = 0

\* A utility that works reports "identical" only for files that are.
FastPath(i) ==
    /\ task[i].pc = "start"
    /\ \E fast \in FastOutcomes :
         /\ fast = "identical" =>
                /\ {task[i].file1, task[i].file2} \subseteq DOMAIN fs
                /\ fs[task[i].file1] = fs[task[i].file2]
         /\ task' = [task EXCEPT ![i] = compare_files_fast(task[i], fast)]
    /\ UNCHANGED <<platform, fs, tmp_files, loaded, dir1, dir2, file_pairs,
                   threads, phase, results, diff_count, error_count>>

LoadFirst(i) ==
    /\ task[i].pc = "load1"
    /\ \E env \in LoadEnvs :
         LET out == read_and_process_file(task[i].file1, env) IN
         /\ task' = [task EXCEPT ![i] = compare_files_load1(task[i], out)]
         /\ tmp_files' = tmp_files + out.tmp_left
    /\ UNCHANGED <<platform, fs, loaded, dir1, dir2, file_pairs, threads, phase,
                   results, diff_count, error_count>>

LoadSecondAndCompare(i) ==
    /\ task[i].pc = "load2"
    /\ \E env \in LoadEnvs :
         LET out == read_and_process_file(task[i].file2, env) IN
         /\ \E t \in compare_files_load2(task[i], out) :
                task' = [task EXCEPT ![i] = t]
         /\ tmp_files' = tmp_files + out.tmp_left
    /\ UNCHANGED <<platform, fs, loaded, dir1, dir2, file_pairs, threads, phase,
                   results, diff_count, error_count>>

NextCompare ==
    \/ \E i \in 1..Len(task) : FastPath(i)
    \/ \E i \in 1..Len(task) : LoadFirst(i)
    \/ \E i \in 1..Len(task) : LoadSecondAndCompare(i)

SpecCompare == InitCompare /\ [][NextCompare]_vars

\* ---------------------------------------------------- generate_file_pairs
\* The names of the model's directories.  Ext is an extension.
SC == <<"S", "C">>
Ext == <<".", "t">>

RECURSIVE JoinWith(_, _)
JoinWith(parts, sep) ==
    IF Len(parts) = 1 THEN parts[1]
    ELSE parts[1] \o <<sep>> \o JoinWith(Tail(parts), sep)

File(parts, ext) == [name |-> JoinWith(parts, "_") \o ext, is_file |-> TRUE]
Directory(parts, ext) == [name |-> JoinWith(parts, "_") \o ext, is_file |-> FALSE]

\* SC_1_d_v_A_Z.t and SC_1_d_w_A_Z.t (the version differs), SC_2_d_v_A_Z.t
\* (another id), SC_1_d_v_B_Z.t (another variant), SC_1_d_v_x_A_Z (seven
\* segments), XX_1_d_v_A_Z.t, SC_1_d_A_Z.t (five segments),
\* SC_1_d_v_A_Z.t.g (the stem ends in Z.t), and two directories.
EntryV == File(<<SC, <<"1">>, <<"d">>, <<"v">>, <<"A">>, <<"Z">>>>, Ext)
EntryW == File(<<SC, <<"1">>, <<"d">>, <<"w">>, <<"A">>, <<"Z">>>>, Ext)
EntryId2 == File(<<SC, <<"2">>, <<"d">>, <<"v">>, <<"A">>, <<"Z">>>>, Ext)
EntryVarB == File(<<SC, <<"1">>, <<"d">>, <<"v">>, <<"B">>, <<"Z">>>>, Ext)
EntrySeven == File(<<SC, <<"1">>, <<"d">>, <<"v">>, <<"x">>, <<"A">>, <<"Z">>>>, <<>>)
EntryXX == File(<<<<"X", "X">>, <<"1">>, <<"d">>, <<"v">>, <<"A">>, <<"Z">>>>, Ext)
EntryFive == File(<<SC, <<"1">>, <<"d">>, <<"A">>, <<"Z">>>>, Ext)
EntryTwoExt == File(<<SC, <<"1">>, <<"d">>, <<"v">>, <<"A">>, <<"Z">>>>, Ext \o <<".", "g">>)
EntryDirU == Directory(<<SC, <<"1">>, <<"d">>, <<"u">>, <<"A">>, <<"Z">>>>, Ext)
EntryDirId2 == Directory(<<SC, <<"2">>, <<"d">>, <<"w">>, <<"A">>, <<"Z">>>>, Ext)

Dir1Entries == {EntryV, EntryW, EntryId2, EntryXX, EntryFive, EntryDirU}
Dir2Entries == {EntryV, EntryW, EntryVarB, EntrySeven, EntryTwoExt, EntryDirId2}

\* The listings of at most n entries of a directory: its names are distinct,
\* their order is the file system's.
Listings(entries, n) ==
    UNION {{l \in [1..k -> entries] : \A i, j \in 1..k : l[i] = l[j] => i = j} :
              k \in 0..n}

InitPairs ==
    /\ platform = "unix"
    /\ fs = EmptyMap
    /\ tmp_files = 0
    /\ loaded = <<>>
    /\ task = <<>>
    /\ dir1 \in Listings(Dir1Entries, MaxDirFiles)
    /\ dir2 \in Listings(Dir2Entries, MaxDirFiles)
    /\ file_pairs = PairsResult(TRUE, <<>>, <<>>)
    /\ threads = 1
    /\ phase = "pairs"
    /\ results = <<>>
    /\ diff_count = 0
    /\ error_count = 0

\* main up to the start of the parallel iteration: the pairs are generated;
\* an error or an empty list ends main, otherwise one call of compare_files
\* per pair is queued and results has one empty place per pair.
GenerateFilePairs ==
    /\ phase = "pairs"
    /\ \E env \in DirEnvs :
         LET r == generate_file_pairs("dir1", "dir2", env) IN
         /\ file_pairs' = r
         /\ phase' = IF ~r.ok THEN "failed"
                     ELSE IF r.pairs = <<>> THEN "no_pairs"
                     ELSE "compare"
         /\ task' = [i \in 1..Len(r.pairs) |->
                        NewCall(r.pairs[i][1], r.pairs[i][2], "queued")]
         /\ results' = [i \in 1..Len(r.pairs) |-> <<>>]
    /\ UNCHANGED <<platform, fs, tmp_files, loaded, dir1, dir2, threads,
                   diff_count, error_count>>

NextPairs == GenerateFilePairs

SpecPairs == InitPairs /\ [][NextPairs]_vars

\* ----------------------------------------- the large and the small path
\* Two files, one above the in-memory threshold and one not: the first is
\* loaded through external_sort_large_file, the second through the
\* small-file path (is_file_too_large says no, or cannot tell).
LargePath == "large_file"
SmallPath == "small_file"

InitEquiv ==
    /\ platform \in Platforms
    /\ fs \in [{LargePath, SmallPath} -> FilesOver(CmpLines, MaxLines)]
    /\ tmp_files = 0
    /\ Idle

LoadLargeFile ==
    /\ loaded = <<>>
    /\ \E env \in {e \in LoadEnvs : e.size = "large"} :
         LET out == read_and_process_file(LargePath, env) IN
         /\ loaded' = <<[out |-> out, env |-> env]>>
         /\ tmp_files' = tmp_files + out.tmp_left
    /\ UNCHANGED <<platform, fs, task, dir1, dir2, file_pairs, threads, phase,
                   results, diff_count, error_count>>

LoadSmallFile ==
    /\ Len(loaded) = 1
    /\ \E env \in {e \in LoadEnvs : e.size # "large"} :
         LET out == read_and_process_file(SmallPath, env) IN
         /\ loaded' = Append(loaded, [out |-> out, env |-> env])
         /\ tmp_files' = tmp_files + out.tmp_left
    /\ UNCHANGED <<platform, fs, task, dir1, dir2, file_pairs, threads, phase,
                   results, diff_count, error_count>>

NextEquiv == LoadLargeFile \/ LoadSmallFile

SpecEquiv == InitEquiv /\ [][NextEquiv]_vars

\* ------------------------------------------------------------------- main
\* The batch: SC_1_d_v_A_Z.t and SC_2_d_v_A_Z.t in dir1, SC_1_d_w_A_Z.t and
\* SC_2_d_v_A_Z.t in dir2.  The two SC_2 files are identical, the SC_1 files
\* differ in one body line.  A listed file may be gone when it is compared.
BatchDir1Entries == {EntryV, EntryId2}
BatchDir2Entries == {EntryW, EntryId2}

BatchContent(path) ==
    IF path.name = EntryId2.name THEN <<<<97>>, <<97>>>>
    ELSE IF path.dir = "dir1" THEN <<<<97>>, <<97>>, <<32, 66>>>>
    ELSE <<<<66>>, <<66>>>>

Listed(dir_path, listing) == {PathOf(dir_path, listing[n].name) : n \in 1..Len(listing)}

InitBatch ==
    /\ platform \in Platforms
    /\ dir1 \in Listings(BatchDir1Entries, MaxDirFiles)
    /\ dir2 \in Listings(BatchDir2Entries, MaxDirFiles)
    /\ fs \in {[path \in D |-> BatchContent(path)] :
                  D \in SUBSET (Listed("dir1", dir1) \cup Listed("dir2", dir2))}
    /\ tmp_files = 0
    /\ loaded = <<>>
    /\ task = <<>>
    /\ file_pairs = PairsResult(TRUE, <<>>, <<>>)
    /\ threads \in 1..MaxThreads
    /\ phase = "pairs"
    /\ results = <<>>
    /\ diff_count = 0
    /\ error_count = 0

Running == {i \in 1..Len(task) : task[i].pc = "start"}

\* A worker of the pool takes a pair that no worker has taken.
WorkerStart(i) ==
    /\ phase = "compare"
    /\ task[i].pc = "queued"
    /\ Cardinality(Running) < threads
    /\ task' = [task EXCEPT ![i].pc = "start"]
    /\ UNCHANGED <<platform, fs, tmp_files, loaded, dir1, dir2, file_pairs,
                   threads, phase, results, diff_count, error_count>>

\* Mutant: the triples are pushed in the order the closures finish.
WorkerFinish_InFinishOrder(i) ==
    /\ phase = "compare"
    /\ task[i].pc = "start"
    /\ \E t \in compare_files(task[i]) :
         LET place == CHOOSE k \in 1..Len(results) :
                         results[k] = <<>> /\ \A j \in 1..(k - 1) : results[j] # <<>>
         IN  /\ results' = [results EXCEPT ![place] = ClosureResult(t)]
             /\ task' = [task EXCEPT ![i] = NewCall(t.file1, t.file2, "returned")]
             /\ tmp_files' = tmp_files + t.tmp_left
    /\ UNCHANGED <<platform, fs, loaded, dir1, dir2, file_pairs, threads, phase,
                   diff_count, error_count>>

\* The closure runs compare_files on its pair and returns the triple, which
\* collect() puts at the place of the pair.
WorkerFinish(i) ==
    /\ phase = "compare"
    /\ task[i].pc = "start"
    /\ \E t \in compare_files(task[i]) :
         /\ results' = [results EXCEPT ![i] = ClosureResult(t)]
         /\ task' = [task EXCEPT ![i] = NewCall(t.file1, t.file2, "returned")]
         /\ tmp_files' = tmp_files + t.tmp_left
    /\ UNCHANGED <<platform, fs, loaded, dir1, dir2, file_pairs, threads, phase,
                   diff_count, error_count>>

\* collect() returns once every closure has.
Collect ==
    /\ phase = "compare"
    /\ \A i \in 1..Len(task) : task[i].pc = "returned"
    /\ phase' = "report"
    /\ UNCHANGED <<platform, fs, tmp_files, loaded, task, dir1, dir2, file_pairs,
                   threads, results, diff_count, error_count>>

Report ==
    /\ phase = "report"
    /\ diff_count' = ReportCounts(results).diff_count
    /\ error_count' = ReportCounts(results).error_count
    /\ phase' = "done"
    /\ UNCHANGED <<platform, fs, tmp_files, loaded, task, dir1, dir2, file_pairs,
                   threads, results>>

NextBatch ==
    \/ GenerateFilePairs
    \/ \E i \in 1..Len(task) : WorkerStart(i)
    \/ \E i \in 1..Len(task) : WorkerFinish(i)
    \/ Collect
    \/ Report

SpecBatch == InitBatch /\ [][NextBatch]_vars

\* The trimmed lines of a file after its line 0, in file order.
TrimmedBody(file) ==
    IF Len(file) <= 1 THEN <<>>
    ELSE [k \in 1..(Len(file) - 1) |-> Trim(Tail(file)[k])]

\* C4: whatever line 0 holds, an Ok result of read_and_process_file is made
\* of exactly the trimmed lines at index >= 1 (on the small-file and on the
\* large-file path), and a file of at most one line gives Ok(empty) when
\* nothing the operating system does fails.
C4_HeaderExcluded ==
    \A n \in 1..Len(loaded) :
        LET out == loaded[n].out
            file == fs[InputPath]
        IN  /\ out.ok => SamePermutation(out.lines, TrimmedBody(file))
            /\ (Len(file) <= 1 /\ loaded[n].env.fail = "none")
                   => (out.ok /\ out.lines = <<>>)

\* A file whose header occurs nowhere in its body was loaded through the
\* large-file path, and a one-line file was loaded.
C4_Witness ==
    /\ Len(loaded) = 1
    /\ loaded[1].out.ok
    /\ loaded[1].env.size = "large"
    /\ Len(fs[InputPath]) = 3
    /\ Trim(fs[InputPath][1]) \notin Range(TrimmedBody(fs[InputPath]))
    /\ Trim(fs[InputPath][1]) # <<>>

\* C10: an Ok result of read_and_process_file holds the trimmed non-header
\* lines with their multiplicities, in non-decreasing byte order, on the
\* in-process and on the external sort branch.
C10_SortedInByteOrder ==
    \A n \in 1..Len(loaded) :
        loaded[n].out.ok =>
            /\ SamePermutation(loaded[n].out.lines, TrimmedBody(fs[InputPath]))
            /\ IsSortedBytes(loaded[n].out.lines)

\* The LineSet of a file: its trimmed lines after line 0, as a set.
LineSet(path) == Range(TrimmedBody(fs[path]))

BothExist(t) == {t.file1, t.file2} \subseteq DOMAIN fs

\* The call failed while loading a file (a read or a sort failed).
LoadFailed(t) ==
    /\ t.result.tag = "Err"
    /\ t.result.err[1].msg = "Failed to read and process file: {}"

\* C1: compare_files on two existing files with the same content returns
\* Ok(None) however the fast-path utility behaves, unless loading a file
\* fails on the slow path.
C1_IdenticalFilesGiveNone ==
    \A i \in 1..Len(task) :
        LET t == task[i] IN
        (/\ t.pc = "done"
         /\ BothExist(t)
         /\ fs[t.file1] = fs[t.file2]
         /\ ~LoadFailed(t)) => t.result = OkNone

\* C2: when compare_files returns Some(diff), only_in_first lists the lines
\* of L1 \ L2 and only_in_second those of L2 \ L1, each line once; both are
\* disjoint from each other and from L1 \cap L2, and each with L1 \cap L2
\* gives back its LineSet.
C2_DifferenceSets ==
    \A i \in 1..Len(task) :
        LET t == task[i] IN
        (t.pc = "done" /\ t.result.tag = "OkSome") =>
            LET L1 == LineSet(t.file1)
                L2 == LineSet(t.file2)
                F == Range(t.result.only_in_first)
                S == Range(t.result.only_in_second)
            IN  /\ F = L1 \ L2
                /\ S = L2 \ L1
                /\ Len(t.result.only_in_first) = Cardinality(F)
                /\ Len(t.result.only_in_second) = Cardinality(S)
                /\ F \cap S = {}
                /\ F \cap (L1 \cap L2) = {}
                /\ S \cap (L1 \cap L2) = {}
                /\ F \cup (L1 \cap L2) = L1
                /\ S \cup (L1 \cap L2) = L2

\* A call returned Some(diff) for two files that share a line, one of them
\* holding a line the other lacks.
C2_Witness ==
    \E i \in 1..Len(task) :
        /\ task[i].pc = "done"
        /\ task[i].result.tag = "OkSome"
        /\ task[i].result.only_in_first # <<>>
        /\ LineSet(task[i].file1) \cap LineSet(task[i].file2) # {}

DifferOnlyInHeader(f, g) ==
    /\ Len(f) >= 1
    /\ Len(g) = Len(f)
    /\ f[1] # g[1]
    /\ Tail(f) = Tail(g)

C5_MissingFileFailsFirst ==
    \A i \in 1..Len(task) :
        LET t == task[i] IN
        (t.pc = "done" /\ ~BothExist(t)) =>
            /\ t.result = Err(<<Msg("File {} does not exist",
                                    IF t.file1 \notin DOMAIN fs THEN t.file1
                                    ELSE t.file2)>>)
            /\ t.ops = <<>>
            /\ t.tmp_created = 0
            /\ tmp_files = 0

\* A call whose first file exists and whose second does not has returned.
C5_Witness ==
    \E i \in 1..Len(task) :
        /\ task[i].pc = "done"
        /\ task[i].file1 \in DOMAIN fs
        /\ task[i].file2 \notin DOMAIN fs

\* C6: whenever the fast-path utility fails (not started, error exit,
\* "different"), compare_files does not return that failure and goes on to
\* the slow path.
C6_FastPathFailureSwallowed ==
    \A i \in 1..Len(task) :
        LET t == task[i] IN
        (t.pc = "done" /\ t.fast \in {"not_started", "error", "different"}) =>
            /\ ~(t.result.tag = "Err" /\ t.result.err = <<Context(ExecuteFailed)>>)
            /\ Len(t.ops) >= 2
            /\ t.ops[2] = "read_and_process_file"

\* The underscore-delimited segments of a path's stem.
StemParts(path) == Split(file_stem(path.name), "_")

FollowsConvention(parts) ==
    /\ Len(parts) >= 6
    /\ parts[1] = <<"S", "C">>
    /\ parts[Len(parts)] = <<"Z">>

\* The FilePairKey: segment 1, segment 2 and the second-to-last segment.
KeyTriple(parts) == <<parts[2], parts[3], parts[Len(parts) - 1]>>

IsRegularFileOf(path, dir_path, listing) ==
    /\ path.dir = dir_path
    /\ \E n \in 1..Len(listing) : listing[n].is_file /\ listing[n].name = path.name

\* C7: every pair generate_file_pairs returns joins a regular file of dir1
\* and a regular file of dir2 whose stems both follow the convention and
\* have equal FilePairKey triples.
C7_PairsMatchByKey ==
    \A n \in 1..Len(file_pairs.pairs) :
        LET file1_path == file_pairs.pairs[n][1]
            file2_path == file_pairs.pairs[n][2]
        IN  /\ IsRegularFileOf(file1_path, "dir1", dir1)
            /\ IsRegularFileOf(file2_path, "dir2", dir2)
            /\ FollowsConvention(StemParts(file1_path))
            /\ FollowsConvention(StemParts(file2_path))
            /\ KeyTriple(StemParts(file1_path)) = KeyTriple(StemParts(file2_path))

\* A pair was returned whose two names differ in the version segment and in
\* the number of segments, while dir1 also held a name outside the
\* convention.
C7_Witness ==
    /\ phase = "compare"
    /\ Len(file_pairs.pairs) = 1
    /\ file_pairs.pairs[1][1].name = EntryW.name
    /\ file_pairs.pairs[1][2].name = EntrySeven.name
    /\ \E n \in 1..Len(dir1) : dir1[n] = EntryXX

\* A regular file of dir1 that follows the convention and whose key is the
\* key of a conforming regular file of dir2.
HasMatch(e) ==
    /\ e.is_file
    /\ FollowsConvention(Split(file_stem(e.name), "_"))
    /\ \E n \in 1..Len(dir2) :
          /\ dir2[n].is_file
          /\ FollowsConvention(Split(file_stem(dir2[n].name), "_"))
          /\ KeyTriple(Split(file_stem(dir2[n].name), "_"))
                 = KeyTriple(Split(file_stem(e.name), "_"))

\* C8: the first components of the pairs returned are the regular files of
\* dir1 that follow the convention and have their key in dir2, once each and
\* in the order of dir1's listing; the only error is a directory that cannot
\* be read.
C8_OnePairPerMatchedFile ==
    phase # "pairs" =>
        IF file_pairs.ok
        THEN LET matched == SelectSeq(dir1, HasMatch) IN
             /\ Len(file_pairs.pairs) = Len(matched)
             /\ \A n \in 1..Len(matched) :
                    file_pairs.pairs[n][1] = PathOf("dir1", matched[n].name)
        ELSE /\ file_pairs.pairs = <<>>
             /\ file_pairs.err[1].msg = "Failed to read directory: {}"

\* Two files of dir1 were matched, in the listing's order (which is not the
\* sorted one).
C8_Witness ==
    /\ phase = "compare"
    /\ dir1 = <<EntryW, EntryV>>
    /\ Len(file_pairs.pairs) = 2
    /\ file_pairs.pairs[1][1].name = EntryW.name
    /\ file_pairs.pairs[2][1].name = EntryV.name

\* The results with the given tag.
Tagged(tag) == {i \in 1..Len(results) : results[i] # <<>> /\ results[i][3].tag = tag}

\* The result at place i is the outcome of comparing pair i and nothing else:
\* it names the pair, it is one of the three outcomes, a missing file of
\* the pair - and only that - gives the does-not-exist error, an error names
\* a file of the pair, and Ok(..) is what the pair's own files compare to.
OwnOutcome(i) ==
    LET file1_path == file_pairs.pairs[i][1]
        file2_path == file_pairs.pairs[i][2]
        result == results[i][3]
        missing == IF file1_path \notin DOMAIN fs THEN <<file1_path>>
                   ELSE IF file2_path \notin DOMAIN fs THEN <<file2_path>>
                   ELSE <<>>
    IN  /\ results[i][1] = file1_path
        /\ results[i][2] = file2_path
        /\ result.tag \in {"OkNone", "OkSome", "Err"}
        /\ missing # <<>> =>
              result = Err(<<Msg("File {} does not exist", missing[1])>>)
        /\ (missing = <<>> /\ result.tag = "Err") =>
              \/ result.err = <<Context(ExecuteFailed)>>
              \/ /\ result.err[1].msg = "Failed to read and process file: {}"
                 /\ result.err[1].arg \in {file1_path, file2_path}
        /\ result.tag = "OkNone" => LineSet(file1_path) = LineSet(file2_path)
        /\ result.tag = "OkSome" =>
              /\ LineSet(file1_path) # LineSet(file2_path)
              /\ Range(result.only_in_first) = LineSet(file1_path) \ LineSet(file2_path)
              /\ Range(result.only_in_second) = LineSet(file2_path) \ LineSet(file1_path)

\* C9: in the batch driver a failed compare_files never aborts or alters the
\* comparison of another pair.  Under every interleaving of the workers the
\* results have one place per pair of generate_file_pairs, a filled place
\* holds the outcome of its own pair (no difference, difference or error),
\* every place is filled once the parallel map has returned, and in the
\* summary the pairs with differences, with errors and identical are the
\* numbers of such results and add up to the number of pairs.
C9_EveryPairOneResult ==
    LET file_pairs_count == Len(file_pairs.pairs) IN
    /\ phase \in {"compare", "report", "done"} =>
          /\ Len(results) = file_pairs_count
          /\ \A i \in 1..file_pairs_count : results[i] # <<>> => OwnOutcome(i)
          /\ \A i \in 1..file_pairs_count :
                task[i].pc = "returned" <=> results[i] # <<>>
    /\ phase \in {"report", "done"} =>
          \A i \in 1..file_pairs_count : results[i] # <<>>
    /\ phase = "done" =>
          /\ diff_count = Cardinality(Tagged("OkSome"))
          /\ error_count = Cardinality(Tagged("Err"))
          /\ diff_count + error_count <= file_pairs_count
          /\ IdenticalCount(file_pairs_count, diff_count, error_count)
                = Cardinality(Tagged("OkNone"))
          /\ diff_count + error_count
                + IdenticalCount(file_pairs_count, diff_count, error_count)
                = file_pairs_count

\* Two workers, two pairs: the first pair failed (its file is gone), the
\* second was compared and differs, and the summary has been computed.
C9_Witness ==
    /\ phase = "done"
    /\ threads = 2
    /\ Len(results) = 2
    /\ results[1][3].tag = "Err"
    /\ results[1][1] \notin DOMAIN fs
    /\ results[2][3].tag = "OkSome"
    /\ error_count = 1
    /\ diff_count = 1

\* Both workers are inside compare_files at the same time.
C9_BothRunning == Cardinality(Running) = 2

\* C11: a file above the in-memory threshold is normalized like a small one:
\* when the large file and the small file have the same header-skipped,
\* trimmed lines and both loads succeed, the set of lines returned through
\* external_sort_large_file equals the set returned through the small-file
\* path.
C11_LargeSameLineSetAsSmall ==
    (/\ Len(loaded) = 2
     /\ loaded[1].out.ok
     /\ loaded[2].out.ok
     /\ TrimmedBody(fs[LargePath]) = TrimmedBody(fs[SmallPath]))
        => /\ Range(loaded[1].out.lines) = Range(loaded[2].out.lines)
           /\ Range(loaded[1].out.lines) = LineSet(LargePath)

\* Two different files with the same two-line body were loaded, the large
\* one sorted by the utility, the small one in the process.
C11_Witness ==
    /\ Len(loaded) = 2
    /\ loaded[1].out.ok
    /\ loaded[2].out.ok
    /\ loaded[1].out.sorter = "external"
    /\ loaded[2].out.sorter = "internal"
    /\ fs[LargePath] # fs[SmallPath]
    /\ TrimmedBody(fs[LargePath]) = TrimmedBody(fs[SmallPath])
    /\ Cardinality(LineSet(LargePath)) = 1

\* C12: on the large-file path the sort is chosen by the line count as on
\* the small-file path: whenever a sort is run for a file above the
\* in-memory threshold, it is the external utility if the body has more
\* than LINE_SORT_THRESHOLD lines and the platform is not Windows, and the
\* in-process sort otherwise.
C12_LargePathSortChoice ==
    \A n \in 1..Len(loaded) :
        LET out == loaded[n].out IN
        (loaded[n].env.size = "large" /\ out.sorter # "none") =>
            out.sorter =
                IF platform # "windows"
                   /\ Len(TrimmedBody(fs[InputPath])) > LINE_SORT_THRESHOLD
                THEN "external" ELSE "internal"

\* The places in dir2's listing of the conforming regular files with the
\* FilePairKey of the given dir1 path.
SameKeyInDir2(file1_path) ==
    {n \in 1..Len(dir2) :
        /\ dir2[n].is_file
        /\ FollowsConvention(Split(file_stem(dir2[n].name), "_"))
        /\ KeyTriple(Split(file_stem(dir2[n].name), "_"))
               = KeyTriple(StemParts(file1_path))}

\* C13: when dir2 holds several conforming files with the same FilePairKey,
\* the lookup keeps the one that comes last in dir2's listing: every pair
\* names that last file, never an earlier duplicate, and duplicates raise no
\* error (generate_file_pairs fails only when a directory cannot be read).
C13_LastDuplicateWins ==
    /\ \A i \in 1..Len(file_pairs.pairs) :
          LET file1_path == file_pairs.pairs[i][1]
              file2_path == file_pairs.pairs[i][2]
              same == SameKeyInDir2(file1_path)
          IN  /\ same # {}
              /\ \E n \in same :
                    /\ \A k \in same : k <= n
                    /\ file2_path = PathOf("dir2", dir2[n].name)
    /\ (phase # "pairs" /\ ~file_pairs.ok) =>
          /\ file_pairs.err[1].msg = "Failed to read directory: {}"
          /\ file_pairs.err[1].arg \in {"dir1", "dir2"}

\* dir2 listed two conforming files with one key, and both files of dir1
\* with that key were paired with the one listed last.
C13_Witness ==
    /\ phase = "compare"
    /\ dir2 = <<EntryW, EntryV>>
    /\ Len(file_pairs.pairs) = 2
    /\ file_pairs.pairs[1][2] = PathOf("dir2", EntryV.name)
    /\ file_pairs.pairs[2][2] = PathOf("dir2", EntryV.name)
    /\ file_pairs.pairs[1][1] # file_pairs.pairs[2][1]

\* C14: every temporary file created for sorting is gone when the call
\* returns, on every exit path of external_sort and of
\* external_sort_large_file: no call leaves a temporary file behind and
\* none is left in the file system.
C14_TempFilesRemoved ==
    /\ tmp_files = 0
    /\ \A n \in 1..Len(loaded) :
          /\ loaded[n].out.tmp_left = 0
          /\ loaded[n].out.tmp_created <= 1

\* The sort utility exited with a failure status after the temporary file
\* had been written.
C14_Witness ==
    /\ Len(loaded) = 1
    /\ loaded[1].env.fail = "exit"
    /\ ~loaded[1].out.ok
    /\ loaded[1].out.tmp_created = 1
    /\ loaded[1].out.tmp_left = 0

\* The load reached the sort utility, which exited with a failure status.
SortUtilityFailed(n) ==
    /\ platform # "windows"
    /\ loaded[n].env.fail = "exit"
    /\ \/ loaded[n].env.size = "large"
       \/ Len(TrimmedBody(fs[InputPath])) > LINE_SORT_THRESHOLD

\* C15: when the external sort utility exits with a failure status the sort
\* fails with an error that carries the utility's diagnostic output, the
\* lines passed to external_sort are left as they were, and
\* read_and_process_file returns that failure for the file (with its
\* context on the small-file path) without running the in-process sort.
C15_SortFailurePropagates ==
    \A n \in 1..Len(loaded) :
        LET out == loaded[n].out IN
        SortUtilityFailed(n) =>
            /\ ~out.ok
            /\ out.sorter = "external"
            /\ IF loaded[n].env.size = "large"
               THEN out.err = <<[msg |-> "External sort command failed for large file: {}",
                                 stderr |-> SortStderr]>>
               ELSE /\ out.err = <<Msg("Failed to externally sort file: {}", InputPath),
                                   [msg |-> "External sort command failed: {}",
                                    stderr |-> SortStderr]>>
                    /\ out.lines = TrimmedBody(fs[InputPath])

\* The utility failed on the small-file path for a body that is not in
\* sorted order, which the failed call left as it was.
C15_Witness ==
    /\ Len(loaded) = 1
    /\ SortUtilityFailed(1)
    /\ loaded[1].env.size = "small"
    /\ ~loaded[1].out.ok
    /\ loaded[1].out.lines = <<<<97>>, <<66>>>>
    /\ ~IsSortedBytes(loaded[1].out.lines)

\* C16: in whatever order the workers finish, the collected results list
\* the pairs in the order generate_file_pairs returned them, each result
\* with its own (file1, file2): a filled place i names pair i, and what the
\* report loop goes through is the sequence of the pairs.
C16_ResultsInPairOrder ==
    /\ phase \in {"compare", "report", "done"} =>
          /\ Len(results) = Len(file_pairs.pairs)
          /\ \A i \in 1..Len(results) :
                results[i] # <<>> =>
                    <<results[i][1], results[i][2]>> = file_pairs.pairs[i]
    /\ phase \in {"report", "done"} =>
          [i \in 1..Len(results) |-> <<results[i][1], results[i][2]>>]
              = file_pairs.pairs

\* The second pair's comparison has finished while the first pair's has
\* not, and its result sits at the second place.
C16_Witness ==
    /\ phase = "compare"
    /\ Len(results) = 2
    /\ results[1] = <<>>
    /\ results[2] # <<>>
    /\ <<results[2][1], results[2][2]>> = file_pairs.pairs[2]
    /\ file_pairs.pairs[1] # file_pairs.pairs[2]

====
